---- MODULE Spec2Model ----
(***************************************************************************)
(* The OpenAI-compatible chat-completion gateway of src/main.py: the       *)
(* bearer-token gate (verify_token), the translation of a                  *)
(* ChatCompletionRequest into the Ollama /api/chat request, the single     *)
(* upstream POST, and the translation of the reply into a                  *)
(* ChatCompletionResponse or an HTTPException.                             *)
(*                                                                         *)
(* Text is a sequence of symbols (a character, or a fixed literal of the   *)
(* source kept as one symbol).  temperature and top_p are in tenths.       *)
(* Python's Optional[T] is a tagged value: None, or Some(v).               *)
(* Requests carry a Bearer credential and a body that passes pydantic      *)
(* validation; the 403/422 answers FastAPI itself gives otherwise are      *)
(* produced before any code of main.py runs and are not modelled.          *)
(***************************************************************************)
EXTENDS Integers, Sequences, FiniteSets, TLC

VARIABLES
    API_TOKENS,       \* main.py:39, the process-wide list of accepted tokens
    OLLAMA_API_BASE,  \* main.py:42, the backend base URL
    pc,               \* per request slot: idle, auth, handler, awaiting, done
    credentials,      \* per slot: the bearer token presented
    body,             \* per slot: the JSON body as sent by the client
    request,          \* per slot: the ChatCompletionRequest pydantic built
    ollama_request,   \* per slot: the dict built at main.py:137-151
    posted,           \* per slot: the POSTs issued to the backend, in order
    reply,            \* per slot: what the upstream call produced
    response          \* per slot: the HTTP response sent to the client

vars == <<API_TOKENS, OLLAMA_API_BASE, pc, credentials, body, request,
          ollama_request, posted, reply, response>>

-----------------------------------------------------------------------------
\* Bounds of the model.

\* longest client or backend text drawn over Chars
MaxLen == 2
\* longest content of a request message
MaxMsgLen == 3
\* longest content of the backend's message
MaxContentLen == 5
\* most messages in one request
MaxMsgs == 2
\* largest max_tokens a client sends
MaxTokens == 2
\* most entries in a stop list
MaxStops == 2

-----------------------------------------------------------------------------
\* Values.

None == [some |-> FALSE]
Some(v) == [some |-> TRUE, val |-> v]

Chars == {"a", "b"}

\* every text over Chars of length at most n
Str(n) == UNION {[1..k -> Chars] : k \in 0..n}

\* a text of exactly n symbols
Word(n) == [i \in 1..n |-> IF i % 2 = 1 THEN "a" ELSE "b"]

\* every sequence over S of length at most n
SeqUpTo(S, n) == UNION {[1..k -> S] : k \in 0..n}

\* whether text t occurs in text s as a contiguous run
Contains(s, t) ==
    \E i \in 1..(Len(s) + 1) :
        /\ i + Len(t) - 1 =< Len(s)
        /\ SubSeq(s, i, i + Len(t) - 1) = t

Absent == [pending |-> TRUE]

-----------------------------------------------------------------------------
\* The inbound schema (main.py:45-60).

\* Message: role and content, both str
Message(role, content) == [role |-> role, content |-> content]

\* the defaults of ChatCompletionRequest, temperature and top_p in tenths
DefaultTemperature == 7
DefaultTopP == 10

\* The ChatCompletionRequest pydantic builds from a JSON body: a key the
\* body lacks takes the field's default.  stop keeps its Union tag: a str
\* or a list.  n, presence_penalty, frequency_penalty and user are parsed
\* and never read again, so they are left out.
ChatCompletionRequest(raw) ==
    [model       |-> raw.model,
     messages    |-> raw.messages,
     temperature |-> IF "temperature" \in DOMAIN raw
                     THEN raw.temperature ELSE DefaultTemperature,
     top_p       |-> IF "top_p" \in DOMAIN raw
                     THEN raw.top_p ELSE DefaultTopP,
     max_tokens  |-> IF "max_tokens" \in DOMAIN raw
                     THEN Some(raw.max_tokens) ELSE None,
     stream      |-> IF "stream" \in DOMAIN raw
                     THEN Some(raw.stream) ELSE Some(FALSE),
     stop        |-> IF "stop" \in DOMAIN raw
                     THEN Some(raw.stop) ELSE None]

\* a stop value as JSON gives it: one string, or a list of strings
StopStr(s) == [str |-> s]
StopList(l) == [list |-> l]
IsList(stop) == "list" \in DOMAIN stop

-----------------------------------------------------------------------------
\* The client inputs the model draws from.

Models == {"llama2", "mistral"}

\* the scenario of the specification: a system and a user message
DefaultMessages ==
    <<Message("system", Word(3)), Message("user", Word(2))>>

\* message lists whose contents vary in number and length
MessageLists ==
    SeqUpTo({Message("user", Word(n)) : n \in 0..MaxMsgLen}, MaxMsgs)

StopValues ==
    {StopStr(s) : s \in Str(MaxLen)}
        \cup {StopList(l) : l \in SeqUpTo(Str(1), MaxStops)}

\* Bodies varying one field of the request at a time.
ModelBodies ==
    {[model |-> m, messages |-> DefaultMessages] : m \in Models}
MessageBodies ==
    {[model |-> "llama2", messages |-> ms] : ms \in MessageLists}
SamplingBodies ==
    {[model |-> "llama2", messages |-> DefaultMessages,
      temperature |-> t, top_p |-> p] : t \in {0, 7}, p \in {5, 10}}
MaxTokensBodies ==
    {[model |-> "llama2", messages |-> DefaultMessages, max_tokens |-> n] :
        n \in 0..MaxTokens}
StreamBodies ==
    {[model |-> m, messages |-> DefaultMessages, stream |-> s] :
        m \in Models, s \in BOOLEAN}
StopBodies ==
    {[model |-> "llama2", messages |-> DefaultMessages, stop |-> s] :
        s \in StopValues}
\* and bodies that set the optional fields together
CombinedBodies ==
    {[model |-> "mistral", messages |-> DefaultMessages, max_tokens |-> n,
      stream |-> s, stop |-> st] :
        n \in {0, MaxTokens}, s \in BOOLEAN,
        st \in {StopStr(<<>>), StopStr(<<"a">>), StopList(<<>>),
                StopList(<<<<"a">>, <<>>>>)}}

Bodies ==
    ModelBodies \cup MessageBodies \cup SamplingBodies \cup MaxTokensBodies
        \cup StreamBodies \cup StopBodies \cup CombinedBodies

\* main.py:39 with API_TOKENS="test-token,tok-b" in the environment: the
\* default token and a second one
ConfiguredTokens == <<"test-token", "tok-b">>

\* main.py:42
DefaultApiBase == "http://localhost:11434"

\* the bearer tokens clients present: the accepted ones and a proper
\* prefix of an accepted one
Credentials == {"test-token", "tok-b", "test"}

-----------------------------------------------------------------------------
\* What the upstream call can produce (main.py:154-168).

\* a JSON value as response.json() returns it
JNull == [type |-> "null"]
JString(s) == [type |-> "string", str |-> s]
JObject(d) == [type |-> "object", obj |-> d]
JArray == [type |-> "array"]

\* the "message" member of a backend reply: an object with an optional role
\* and an optional content, each a string or null
BackendContents ==
    {JNull} \cup {JString(Word(n)) : n \in 0..MaxContentLen}
BackendRoles == {JNull, JString("assistant"), JString("tool")}
BackendMessages ==
    {JNull, JObject([done |-> TRUE])}
        \cup {JObject([content |-> c]) : c \in BackendContents}
        \cup {JObject([role |-> r]) : r \in BackendRoles}
        \cup {JObject([role |-> r, content |-> c]) :
                r \in BackendRoles, c \in BackendContents}

\* the parsed body of a 200 reply: not an object, an object without
\* "message", or one with it; "model" is the model the backend reports
BackendJson ==
    {JArray, JObject([done |-> TRUE]), JObject([model |-> "mistral"])}
        \cup {JObject([message |-> m]) : m \in BackendMessages}
        \cup {JObject([model |-> "mistral", message |-> m]) :
                m \in BackendMessages}

\* the status codes other than 200 the backend answers with
ErrorStatuses == {201, 404, 500, 503}

\* str(e) of the exception client.post raises
ExcMessages == {<<>>, <<"All connection attempts failed">>}

\* client.post raised: the backend could not be reached, or the 120 s
\* timeout ran out
UpstreamExceptions ==
    {[kind |-> "exception", exc |-> e, msg |-> m] :
        e \in {"ConnectError", "ReadTimeout"}, m \in ExcMessages}

\* client.post returned: a status other than 200 with any body text, or
\* 200 with a body that json() parses or rejects.  The text of a 200 reply
\* is read through json() alone, so it is kept abstract.
UpstreamResponses ==
    {[kind |-> "response", status_code |-> s, text |-> t,
      json |-> None] : s \in ErrorStatuses, t \in Str(MaxLen)}
        \cup {[kind |-> "response", status_code |-> 200, text |-> <<"body">>,
               json |-> j] : j \in {None} \cup {Some(v) : v \in BackendJson}}

-----------------------------------------------------------------------------
\* FastAPI answers a raised HTTPException with its status code, its headers
\* and the JSON body {"detail": detail}.
HTTPException(status_code, detail, headers) ==
    [status_code |-> status_code,
     headers     |-> headers,
     body        |-> [detail |-> detail]]

\* a gate that only asks for some token
TokenAccepted_AnyToken(token, tokens) == token # ""

\* verify_token (main.py:81-88): exact membership in the list API_TOKENS
TokenAccepted(token, tokens) ==
    \E i \in 1..Len(tokens) : tokens[i] = token

Unauthorized ==
    HTTPException(401, <<"Invalid authentication token">>,
                  {<<"WWW-Authenticate", "Bearer">>})

-----------------------------------------------------------------------------
\* Request translation (main.py:137-151).

\* Python truthiness of an Optional[int]: None and 0 are false
TruthyInt(o) == o.some /\ o.val # 0

\* Python truthiness of an Optional[Union[str, List[str]]]: None, the
\* empty string and the empty list are false
TruthyStop(o) ==
    o.some /\ (IF IsList(o.val) THEN o.val.list # <<>> ELSE o.val.str # <<>>)

\* main.py:151: a list as it is, anything else wrapped in a list
StopOption(stop) ==
    IF IsList(stop) THEN stop.list ELSE <<stop.str>>

\* the "options" dict: temperature and top_p always, num_predict and stop
\* under the two ifs of main.py:147-151
OllamaOptions(req) ==
    LET base == [temperature |-> req.temperature, top_p |-> req.top_p]
        withPredict ==
            IF TruthyInt(req.max_tokens)
            THEN base @@ [num_predict |-> req.max_tokens.val]
            ELSE base
    IN  IF TruthyStop(req.stop)
        THEN withPredict @@ [stop |-> StopOption(req.stop.val)]
        ELSE withPredict

\* a translation that hands the client's flag on
OllamaStream_FromRequest(req) == req.stream.val

\* main.py:140
OllamaStream(req) == FALSE

OllamaRequest(req) ==
    [model    |-> req.model,
     messages |-> [i \in 1..Len(req.messages) |->
                     [role    |-> req.messages[i].role,
                      content |-> req.messages[i].content]],
     stream   |-> OllamaStream(req),
     options  |-> OllamaOptions(req)]

\* the timeout of the upstream call in seconds (main.py:158)
UpstreamTimeout == 120

\* the POST of main.py:155-159
UpstreamPost(base, req) ==
    [url     |-> <<base, "/api/chat">>,
     json    |-> req,
     timeout |-> UpstreamTimeout]

-----------------------------------------------------------------------------
\* Response translation (main.py:170-205).

EmptyDict == [k \in {} |-> k]

\* dict.get(key, default)
Get(d, key, default) == IF key \in DOMAIN d THEN d[key] ELSE default

\* "".join of the contents, in order
RECURSIVE JoinContents(_)
JoinContents(messages) ==
    IF messages = <<>> THEN <<>>
    ELSE Head(messages).content \o JoinContents(Tail(messages))

\* an estimate that rounds up
EstimateTokens_RoundUp(text) == (Len(text) + 3) \div 4

\* main.py:182-183: about four characters per token
EstimateTokens(text) == Len(text) \div 4

Usage(prompt_text, completion_text) ==
    LET prompt_tokens == EstimateTokens(prompt_text)
        completion_tokens == EstimateTokens(completion_text)
    IN  [prompt_tokens     |-> prompt_tokens,
         completion_tokens |-> completion_tokens,
         total_tokens      |-> prompt_tokens + completion_tokens]

\* a response that names the model the backend reports
ResponseModel_FromBackend(req, ollama_response) ==
    Get(ollama_response.obj, "model", req.model)

\* main.py:189: the model the response names
ResponseModel(req, ollama_response) == req.model

\* main.py:175: ollama_response.get("message", {})
AssistantMessage(ollama_response) ==
    Get(ollama_response.obj, "message", JObject(EmptyDict))

\* The statements of main.py:171-205 raise unless the reply is a JSON
\* object whose "message", when there, is an object whose "content" and
\* "role", when there, are strings: .get on a list or on None is an
\* AttributeError, len(None) a TypeError, Message(role=None) a pydantic
\* ValidationError.
Translatable(ollama_response) ==
    /\ ollama_response.type = "object"
    /\ AssistantMessage(ollama_response).type = "object"
    /\ Get(AssistantMessage(ollama_response).obj, "content",
           JString(<<>>)).type = "string"
    /\ Get(AssistantMessage(ollama_response).obj, "role",
           JString("assistant")).type = "string"

\* str(e) of the exception those statements raise
TranslationError(ollama_response) ==
    IF ollama_response.type # "object"
        THEN <<"'list' object has no attribute 'get'">>
    ELSE IF AssistantMessage(ollama_response).type # "object"
        THEN <<"'NoneType' object has no attribute 'get'">>
    ELSE IF Get(AssistantMessage(ollama_response).obj, "content",
                JString(<<>>)).type # "string"
        THEN <<"object of type 'NoneType' has no len()">>
    ELSE <<"1 validation error for Message">>

\* a response whose choice is numbered from the call's random id
ChatCompletionResponse_NumberedChoice(req, ollama_response, uuid4, now) ==
    LET assistant_message == AssistantMessage(ollama_response).obj
        content == Get(assistant_message, "content", JString(<<>>)).str
    IN  [id      |-> <<"chatcmpl-", uuid4>>,
         object  |-> "chat.completion",
         created |-> now,
         model   |-> req.model,
         choices |-> <<[index         |-> IF uuid4 = "uuid-1" THEN 0 ELSE 1,
                        message       |-> Message(
                            Get(assistant_message, "role",
                                JString("assistant")).str, content),
                        finish_reason |-> "stop"]>>,
         usage   |-> Usage(JoinContents(req.messages), content)]

\* main.py:186-205
ChatCompletionResponse(req, ollama_response, uuid4, now) ==
    LET assistant_message == AssistantMessage(ollama_response).obj
        prompt_text == JoinContents(req.messages)
        completion_text == Get(assistant_message, "content", JString(<<>>)).str
    IN  [id      |-> <<"chatcmpl-", uuid4>>,
         object  |-> "chat.completion",
         created |-> now,
         model   |-> ResponseModel(req, ollama_response),
         choices |-> <<[index         |-> 0,
                        message       |-> Message(
                            Get(assistant_message, "role",
                                JString("assistant")).str,
                            Get(assistant_message, "content",
                                JString(<<>>)).str),
                        finish_reason |-> "stop"]>>,
         usage   |-> Usage(prompt_text, completion_text)]

\* the 200 response FastAPI builds from the returned model
Ok(chat_response) ==
    [status_code |-> 200, headers |-> {}, body |-> chat_response]

\* main.py:161-166: a status other than 200 is raised as is, with the body
\* text after a fixed prefix
UpstreamErrorDetail(text) == <<"Ollama API error: ">> \o text

\* a handler that reports every backend error as 502
UpstreamError_BadGateway(rep) ==
    HTTPException(502, UpstreamErrorDetail(rep.text), {})

UpstreamError(rep) ==
    HTTPException(rep.status_code, UpstreamErrorDetail(rep.text), {})

\* main.py:209-214: every other exception becomes a 500
ProcessingError(msg) ==
    HTTPException(500, <<"Error processing chat completion: ">> \o msg, {})

\* str(e) of json.JSONDecodeError
JSONDecodeError == <<"Expecting value: line 1 column 1 (char 0)">>

\* the values uuid.uuid4() and int(time.time()) give
Uuids == {"uuid-1", "uuid-2"}
Times == {1700000000, 1700000001}

-----------------------------------------------------------------------------
\* The life of one request.  R is the set of request slots the server
\* handles at once.

Slots == DOMAIN pc

InitOver(R) ==
    /\ API_TOKENS = ConfiguredTokens
    /\ OLLAMA_API_BASE = DefaultApiBase
    /\ pc = [r \in R |-> "idle"]
    /\ credentials = [r \in R |-> ""]
    /\ body = [r \in R |-> Absent]
    /\ request = [r \in R |-> Absent]
    /\ ollama_request = [r \in R |-> Absent]
    /\ posted = [r \in R |-> <<>>]
    /\ reply = [r \in R |-> Absent]
    /\ response = [r \in R |-> Absent]

\* POST /v1/chat/completions arrives: FastAPI reads the bearer credential
\* and validates the body into a ChatCompletionRequest (main.py:128-132).
Accept(r, token, raw) ==
    /\ pc[r] = "idle"
    /\ pc' = [pc EXCEPT ![r] = "auth"]
    /\ credentials' = [credentials EXCEPT ![r] = token]
    /\ body' = [body EXCEPT ![r] = raw]
    /\ request' = [request EXCEPT ![r] = ChatCompletionRequest(raw)]
    /\ UNCHANGED <<API_TOKENS, OLLAMA_API_BASE, ollama_request, posted,
                   reply, response>>

\* verify_token (main.py:81-88) raises 401 or hands the token on.
VerifyToken(r) ==
    /\ pc[r] = "auth"
    /\ IF TokenAccepted(credentials[r], API_TOKENS)
       THEN /\ pc' = [pc EXCEPT ![r] = "handler"]
            /\ UNCHANGED response
       ELSE /\ pc' = [pc EXCEPT ![r] = "done"]
            /\ response' = [response EXCEPT ![r] = Unauthorized]
    /\ UNCHANGED <<API_TOKENS, OLLAMA_API_BASE, credentials, body, request,
                   ollama_request, posted, reply>>

\* create_chat_completion up to its await (main.py:133-159): the request
\* is translated and posted to the backend.
CallOllama(r) ==
    /\ pc[r] = "handler"
    /\ pc' = [pc EXCEPT ![r] = "awaiting"]
    /\ ollama_request' =
           [ollama_request EXCEPT ![r] = OllamaRequest(request[r])]
    /\ posted' = [posted EXCEPT ![r] =
           Append(@, UpstreamPost(OLLAMA_API_BASE, OllamaRequest(request[r])))]
    /\ UNCHANGED <<API_TOKENS, OLLAMA_API_BASE, credentials, body, request,
                   reply, response>>

\* a handler that calls the backend again after a failure
UpstreamFails_Retry(r, exc) ==
    /\ pc[r] = "awaiting"
    /\ pc' = [pc EXCEPT ![r] = "handler"]
    /\ UNCHANGED <<API_TOKENS, OLLAMA_API_BASE, credentials, body, request,
                   ollama_request, posted, reply, response>>

\* client.post raises (connection refused, timeout): main.py:209-214.
UpstreamFails(r, exc) ==
    /\ pc[r] = "awaiting"
    /\ pc' = [pc EXCEPT ![r] = "done"]
    /\ reply' = [reply EXCEPT ![r] = exc]
    /\ response' = [response EXCEPT ![r] = ProcessingError(exc.msg)]
    /\ UNCHANGED <<API_TOKENS, OLLAMA_API_BASE, credentials, body, request,
                   ollama_request, posted>>

\* a handler that takes a body it cannot parse for an empty reply
HandlerResult_EmptyOnBadBody(req, rep, uuid4, now) ==
    IF rep.status_code # 200 THEN UpstreamError(rep)
    ELSE IF ~rep.json.some
        THEN Ok(ChatCompletionResponse(req, JObject(EmptyDict), uuid4, now))
    ELSE IF ~Translatable(rep.json.val)
        THEN ProcessingError(TranslationError(rep.json.val))
    ELSE Ok(ChatCompletionResponse(req, rep.json.val, uuid4, now))

\* What the handler answers once client.post has returned rep
\* (main.py:161-214).
HandlerResult(req, rep, uuid4, now) ==
    IF rep.status_code # 200 THEN UpstreamError(rep)
    ELSE IF ~rep.json.some THEN ProcessingError(JSONDecodeError)
    ELSE IF ~Translatable(rep.json.val)
        THEN ProcessingError(TranslationError(rep.json.val))
    ELSE Ok(ChatCompletionResponse(req, rep.json.val, uuid4, now))

\* a handler that reads the request from a variable all requests share:
\* the request of the lowest slot that holds one
UpstreamReplies_SharedRequest(r, rep, uuid4, now) ==
    LET s == CHOOSE x \in Slots :
                 /\ request[x] # Absent
                 /\ \A y \in Slots : request[y] # Absent => x =< y
    IN  /\ pc[r] = "awaiting"
        /\ pc' = [pc EXCEPT ![r] = "done"]
        /\ reply' = [reply EXCEPT ![r] = rep]
        /\ response' = [response EXCEPT ![r] =
               HandlerResult(request[s], rep, uuid4, now)]
        /\ UNCHANGED <<API_TOKENS, OLLAMA_API_BASE, credentials, body,
                       request, ollama_request, posted>>

\* client.post returns and the handler runs to its end.
UpstreamReplies(r, rep, uuid4, now) ==
    /\ pc[r] = "awaiting"
    /\ pc' = [pc EXCEPT ![r] = "done"]
    /\ reply' = [reply EXCEPT ![r] = rep]
    /\ response' = [response EXCEPT ![r] =
           HandlerResult(request[r], rep, uuid4, now)]
    /\ UNCHANGED <<API_TOKENS, OLLAMA_API_BASE, credentials, body, request,
                   ollama_request, posted>>

\* The response is on the wire; the per-request objects are dropped.
Close(r) ==
    /\ pc[r] = "done"
    /\ pc' = [pc EXCEPT ![r] = "idle"]
    /\ credentials' = [credentials EXCEPT ![r] = ""]
    /\ body' = [body EXCEPT ![r] = Absent]
    /\ request' = [request EXCEPT ![r] = Absent]
    /\ ollama_request' = [ollama_request EXCEPT ![r] = Absent]
    /\ posted' = [posted EXCEPT ![r] = <<>>]
    /\ reply' = [reply EXCEPT ![r] = Absent]
    /\ response' = [response EXCEPT ![r] = Absent]
    /\ UNCHANGED <<API_TOKENS, OLLAMA_API_BASE>>

\* one request at a time
Init == InitOver({1})

Next ==
    \/ \E r \in Slots, token \in Credentials, raw \in Bodies :
           Accept(r, token, raw)
    \/ \E r \in Slots : VerifyToken(r)
    \/ \E r \in Slots : CallOllama(r)
    \/ \E r \in Slots, exc \in UpstreamExceptions : UpstreamFails(r, exc)
    \/ \E r \in Slots, rep \in UpstreamResponses, uuid4 \in Uuids,
          now \in Times : UpstreamReplies(r, rep, uuid4, now)
    \/ \E r \in Slots : Close(r)

Spec == Init /\ [][Next]_vars

-----------------------------------------------------------------------------
\* Two requests handled at once.  FastAPI runs each call of the endpoint as
\* its own coroutine, so the steps of two requests interleave freely; the
\* inputs are a few of each kind.

ConcurrentBodies ==
    {[model |-> "llama2", messages |-> DefaultMessages],
     [model |-> "mistral", messages |-> DefaultMessages, stream |-> TRUE],
     [model |-> "llama2", messages |-> <<Message("user", Word(3))>>,
      max_tokens |-> MaxTokens, stop |-> StopStr(<<"a">>)]}

ConcurrentExceptions ==
    {[kind |-> "exception", exc |-> "ConnectError",
      msg |-> <<"All connection attempts failed">>]}

ConcurrentResponses ==
    {[kind |-> "response", status_code |-> 404, text |-> <<"a">>,
      json |-> None],
     [kind |-> "response", status_code |-> 200, text |-> <<"body">>,
      json |-> None],
     [kind |-> "response", status_code |-> 200, text |-> <<"body">>,
      json |-> Some(JArray)],
     [kind |-> "response", status_code |-> 200, text |-> <<"body">>,
      json |-> Some(JObject([done |-> TRUE]))],
     [kind |-> "response", status_code |-> 200, text |-> <<"body">>,
      json |-> Some(JObject([model |-> "mistral", message |->
                  JObject([role |-> JString("assistant"),
                           content |-> JString(Word(5))])]))]}

ConcurrentInit == InitOver({1, 2})

ConcurrentNext ==
    \/ \E r \in Slots, token \in Credentials, raw \in ConcurrentBodies :
           Accept(r, token, raw)
    \/ \E r \in Slots : VerifyToken(r)
    \/ \E r \in Slots : CallOllama(r)
    \/ \E r \in Slots, exc \in ConcurrentExceptions : UpstreamFails(r, exc)
    \/ \E r \in Slots, rep \in ConcurrentResponses, uuid4 \in Uuids,
          now \in Times : UpstreamReplies(r, rep, uuid4, now)
    \/ \E r \in Slots : Close(r)

ConcurrentSpec == ConcurrentInit /\ [][ConcurrentNext]_vars

-----------------------------------------------------------------------------
\* Vocabulary of the properties.

\* the request of slot r has been answered
Done(r) == pc[r] = "done"

\* the token of slot r is one of the configured ones
Configured(r) == credentials[r] \in {API_TOKENS[i] : i \in DOMAIN API_TOKENS}

\* the request of slot r was answered 200
Succeeded(r) == Done(r) /\ response[r].status_code = 200

\* the upstream call of slot r returned an HTTP response
Answered(r) == Done(r) /\ reply[r] # Absent /\ reply[r].kind = "response"

\* the upstream call of slot r raised
Unreachable(r) == Done(r) /\ reply[r] # Absent /\ reply[r].kind = "exception"

\* C1: a request whose bearer token is not in the configured set is
\* answered 401 with WWW-Authenticate: Bearer, and at no point of its life
\* has it been translated or posted to the backend.
C1_BadTokenIs401BeforeUpstream ==
    \A r \in Slots :
        (pc[r] # "idle" /\ ~Configured(r)) =>
            /\ pc[r] \in {"auth", "done"}
            /\ ollama_request[r] = Absent
            /\ posted[r] = <<>>
            /\ reply[r] = Absent
            /\ Done(r) =>
                /\ response[r].status_code = 401
                /\ <<"WWW-Authenticate", "Bearer">> \in response[r].headers

\* a request with a token that is a prefix of a configured one was refused
C1_Witness ==
    \E r \in Slots :
        /\ Done(r) /\ credentials[r] = "test"
        /\ response[r].status_code = 401 /\ posted[r] = <<>>

\* C2: a request is posted to the backend's /api/chat at most once,
\* whatever the upstream call produced: a reply, an error status, an
\* exception or an unparseable body.
C2_AtMostOneUpstreamCall ==
    \A r \in Slots :
        /\ Len(posted[r]) =< 1
        /\ \A i \in 1..Len(posted[r]) :
               posted[r][i].url = <<OLLAMA_API_BASE, "/api/chat">>
        /\ reply[r] # Absent => Len(posted[r]) = 1

\* the upstream call failed and was made once
C2_Witness ==
    \E r \in Slots :
        /\ Unreachable(r) /\ reply[r].exc = "ReadTimeout"
        /\ Len(posted[r]) = 1

\* C3: a backend status s other than 200 is the status of the gateway's
\* response, and the response's detail contains the backend's body text.
C3_UpstreamStatusPropagated ==
    \A r \in Slots :
        (Answered(r) /\ reply[r].status_code # 200) =>
            /\ response[r].status_code = reply[r].status_code
            /\ Contains(response[r].body.detail, reply[r].text)

\* the backend answered 404 with a two-character body
C3_Witness ==
    \E r \in Slots :
        /\ Answered(r) /\ reply[r].status_code = 404
        /\ reply[r].text = <<"b", "a">>
        /\ response[r].status_code = 404

\* the keys of a ChatCompletionResponse (main.py:72-78)
ChatResponseFields == {"id", "object", "created", "model", "choices", "usage"}

\* what tells one kind of error response from another without reading its
\* message: the status code and the error type, when the body has one
ErrorClass(resp) ==
    <<resp.status_code,
      IF "error" \in DOMAIN resp.body /\ "type" \in DOMAIN resp.body.error
      THEN resp.body.error.type ELSE "untyped">>

\* C4: when the upstream call fails by connection failure or timeout, the
\* response is a 5xx with no ChatResponse field, its body carries an
\* error.type, and status and type together tell it from the response to a
\* backend error status and from the response to an unparseable body.
C4_UnreachableIsTypedAndDistinct ==
    \A r \in Slots :
        Unreachable(r) =>
            /\ response[r].status_code \in 500..599
            /\ DOMAIN response[r].body \cap ChatResponseFields = {}
            /\ "error" \in DOMAIN response[r].body
            /\ "type" \in DOMAIN response[r].body.error
            /\ \A rep \in UpstreamResponses, uuid4 \in Uuids, now \in Times :
                   (rep.status_code # 200 \/ ~rep.json.some) =>
                       ErrorClass(response[r]) #
                           ErrorClass(HandlerResult(request[r], rep, uuid4, now))

\* C5: every error response of POST /v1/chat/completions has a body of the
\* shape {error: {message, type}}.
C5_ErrorsAreStructured ==
    \A r \in Slots :
        (Done(r) /\ response[r].status_code # 200) =>
            /\ DOMAIN response[r].body = {"error"}
            /\ DOMAIN response[r].body.error = {"message", "type"}

\* C6: whatever the stream flag of the request (true, false or absent), the
\* request posted to the backend has stream false, and a request that asks
\* for streaming is posted all the same, with the JSON the same request
\* without the flag would have.
C6_StreamForcedFalse ==
    \A r \in Slots :
        /\ ollama_request[r] # Absent => ollama_request[r].stream = FALSE
        /\ \A i \in 1..Len(posted[r]) : posted[r][i].json.stream = FALSE
        /\ (pc[r] \in {"awaiting", "done"} /\ Configured(r)) =>
               /\ Len(posted[r]) = 1
               /\ posted[r][1].json =
                      OllamaRequest(ChatCompletionRequest(
                          [k \in DOMAIN body[r] \ {"stream"} |-> body[r][k]]))

\* a request with stream true was posted and answered 200
C6_Witness ==
    \E r \in Slots :
        /\ Succeeded(r)
        /\ "stream" \in DOMAIN body[r] /\ body[r].stream = TRUE
        /\ posted[r][1].json.stream = FALSE

\* C7: the options posted to the backend hold num_predict exactly when the
\* request holds max_tokens, and then with the same value.
C7_NumPredictIffMaxTokens ==
    \A r \in Slots :
        ollama_request[r] # Absent =>
            /\ "num_predict" \in DOMAIN ollama_request[r].options
                   <=> "max_tokens" \in DOMAIN body[r]
            /\ "max_tokens" \in DOMAIN body[r] =>
                   ollama_request[r].options.num_predict = body[r].max_tokens

\* C8: a stop string s is posted as the list <<s>>, a stop list as it is,
\* and no stop key is posted when the request has none.
C8_StopNormalised ==
    \A r \in Slots :
        ollama_request[r] # Absent =>
            IF "stop" \notin DOMAIN body[r]
            THEN "stop" \notin DOMAIN ollama_request[r].options
            ELSE /\ "stop" \in DOMAIN ollama_request[r].options
                 /\ ollama_request[r].options.stop =
                        IF IsList(body[r].stop)
                        THEN body[r].stop.list ELSE <<body[r].stop.str>>

\* floor(n / 4): the q with 4q =< n < 4q + 4
Quarter(n) == CHOOSE q \in 0..n : 4 * q =< n /\ n < 4 * q + 4

\* the contents of the first k messages, one after the other
RECURSIVE ConcatUpTo(_, _)
ConcatUpTo(messages, k) ==
    IF k = 0 THEN <<>>
    ELSE ConcatUpTo(messages, k - 1) \o messages[k].content

\* the content of the backend's message, empty when the backend omits it
CompletionContent(rep) ==
    LET o == rep.json.val.obj
    IN  IF "message" \in DOMAIN o /\ "content" \in DOMAIN o.message.obj
        THEN o.message.obj.content.str ELSE <<>>

\* C9: in a 200 response prompt_tokens is floor(L / 4) for L the length of
\* the request's message contents put end to end, completion_tokens is
\* floor(len(content) / 4) of the backend's content (empty when omitted),
\* and total_tokens is their sum.
C9_UsageIsQuarterOfLengths ==
    \A r \in Slots :
        Succeeded(r) =>
            LET usage == response[r].body.usage
                L == Len(ConcatUpTo(body[r].messages, Len(body[r].messages)))
            IN  /\ usage.prompt_tokens = Quarter(L)
                /\ usage.completion_tokens =
                       Quarter(Len(CompletionContent(reply[r])))
                /\ usage.total_tokens =
                       usage.prompt_tokens + usage.completion_tokens

\* two messages of six characters in all and a completion of five
C9_Witness ==
    \E r \in Slots :
        /\ Succeeded(r)
        /\ Len(body[r].messages) = 2
        /\ Len(body[r].messages[1].content) = 3
        /\ Len(body[r].messages[2].content) = 3
        /\ Len(CompletionContent(reply[r])) = 5
        /\ response[r].body.usage =
               [prompt_tokens |-> 1, completion_tokens |-> 1, total_tokens |-> 2]

\* C10: the model of a 200 response is the model of the request, whatever
\* model the backend's reply names, if any.
C10_ModelEchoedFromRequest ==
    \A r \in Slots :
        Succeeded(r) => response[r].body.model = body[r].model

\* the backend named another model than the request
C10_Witness ==
    \E r \in Slots :
        /\ Succeeded(r)
        /\ body[r].model = "llama2"
        /\ "model" \in DOMAIN reply[r].json.val.obj
        /\ reply[r].json.val.obj.model = "mistral"
        /\ response[r].body.model = "llama2"

\* C11: two 200 responses to the same request body with the same backend
\* reply agree on object, model, choices and usage; only id and created
\* may differ.
C11_SameRequestSameResponse ==
    \A r1 \in Slots, r2 \in Slots :
        (/\ Succeeded(r1) /\ Succeeded(r2)
         /\ body[r1] = body[r2]
         /\ reply[r1] = reply[r2]) =>
            /\ DOMAIN response[r1].body = ChatResponseFields
            /\ DOMAIN response[r2].body = ChatResponseFields
            /\ \A f \in ChatResponseFields \ {"id", "created"} :
                   response[r1].body[f] = response[r2].body[f]
            /\ Len(response[r1].body.choices) = 1

\* the same body and reply were handled twice, by clients with different
\* tokens, and the two responses differ in id and in created
C11_Witness ==
    /\ Slots = {1, 2}
    /\ Succeeded(1) /\ Succeeded(2)
    /\ body[1] = body[2] /\ "stop" \in DOMAIN body[1]
    /\ reply[1] = reply[2] /\ "message" \in DOMAIN reply[1].json.val.obj
    /\ credentials[1] # credentials[2]
    /\ response[1].body.id # response[2].body.id
    /\ response[1].body.created # response[2].body.created
    /\ response[1].body.usage = response[2].body.usage

\* the reply of slot r is a 200 whose body json() parsed into a backend
\* response: an object whose message, when there, is an object whose role
\* and content, when there, are strings
ParsedBackendResponse(r) ==
    /\ reply[r] # Absent
    /\ reply[r].kind = "response"
    /\ reply[r].status_code = 200
    /\ reply[r].json.some
    /\ reply[r].json.val.type = "object"
    /\ "message" \in DOMAIN reply[r].json.val.obj =>
           /\ reply[r].json.val.obj.message.type = "object"
           /\ \A k \in DOMAIN reply[r].json.val.obj.message.obj
                          \cap {"role", "content"} :
                  reply[r].json.val.obj.message.obj[k].type = "string"

\* C12: a 200 ChatResponse is sent only after the token was accepted and
\* the one upstream call returned 200 with a body parsed as a backend
\* response; a request has no response before it ends, and ends with either
\* a complete ChatResponse or an error response holding no ChatResponse
\* field.
C12_OkOnlyAfterAuthAndUpstream ==
    \A r \in Slots :
        /\ Succeeded(r) =>
               /\ Configured(r)
               /\ Len(posted[r]) = 1
               /\ ParsedBackendResponse(r)
        /\ ~Done(r) => response[r] = Absent
        /\ Done(r) =>
               /\ response[r] # Absent
               /\ IF response[r].status_code = 200
                  THEN DOMAIN response[r].body = ChatResponseFields
                  ELSE DOMAIN response[r].body \cap ChatResponseFields = {}
               /\ ~ParsedBackendResponse(r) => response[r].status_code # 200

\* a request with the second configured token was answered 200 from a
\* reply that has a message
C12_Witness ==
    \E r \in Slots :
        /\ Succeeded(r) /\ credentials[r] = "tok-b"
        /\ ParsedBackendResponse(r)
        /\ "message" \in DOMAIN reply[r].json.val.obj
        /\ Len(posted[r]) = 1

\* What a request handled with no other request in flight is answered,
\* from its own token, body and upstream outcome (Absent when the upstream
\* was never called).
AloneOutcome(token, raw, rep, uuid4, now) ==
    IF token \notin {ConfiguredTokens[i] : i \in DOMAIN ConfiguredTokens}
        THEN Unauthorized
    ELSE IF rep.kind = "exception" THEN ProcessingError(rep.msg)
    ELSE HandlerResult(ChatCompletionRequest(raw), rep, uuid4, now)

\* C13: however the steps of two requests interleave, each is posted and
\* answered as it would be alone, from its own token, body and upstream
\* reply (id and created apart), and the token list and the backend base
\* URL stay as they were at startup.
C13_RequestsAreIndependent ==
    /\ API_TOKENS = ConfiguredTokens
    /\ OLLAMA_API_BASE = DefaultApiBase
    /\ \A r \in Slots :
           /\ ollama_request[r] # Absent =>
                  /\ ollama_request[r] =
                         OllamaRequest(ChatCompletionRequest(body[r]))
                  /\ posted[r] =
                         <<UpstreamPost(DefaultApiBase, ollama_request[r])>>
           /\ Done(r) =>
                  \E uuid4 \in Uuids, now \in Times :
                      response[r] =
                          AloneOutcome(credentials[r], body[r], reply[r],
                                       uuid4, now)

\* two requests with different bodies are open at once, one answered 200
\* and the other with the backend's 404
C13_Witness ==
    /\ Slots = {1, 2}
    /\ Succeeded(1) /\ body[1].model = "llama2"
    /\ Done(2) /\ body[2].model = "mistral"
    /\ response[2].status_code = 404
    /\ response[1].body.model = "llama2"

====
